---- MODULE Spec2Model ----
(***************************************************************************)
(* A model of the trading-engine core of fx-terminal:                      *)
(*   - FXDataHandler.add_price_data        (src/bot/data_handler.py)       *)
(*   - YahooFinanceDataSource.place_order  (src/bot/data_source.py)        *)
(*   - OrderMonitor                        (src/bot/order_monitor.py)      *)
(* Python floats are modelled as exact rationals <<numerator, denominator>>*)
(* kept in lowest terms, so equalities are those of real arithmetic.       *)
(***************************************************************************)
EXTENDS Integers, Sequences, FiniteSets, Bags, TLC

VARIABLES
    \* ---- YahooFinanceDataSource (the paper-trading ledger)
    balance,        \* self.balance, a rational
    positions,      \* self.positions: uic -> [amount, open_price, opened_time]
    nops,           \* number of ledger calls made so far (the clock)
    last,           \* the last ledger call: its inputs, pre-state and result
    submit,         \* the threads inside place_order: thread -> its position
                    \* in the body and its local variables
    quote,          \* the last get_prices call: its inputs and result
    conv,           \* the last _convert_value_to_usd call: inputs and result
    saxo,           \* the last SaxoDataSource.get_balance call
    \* ---- FXDataHandler
    price_history,  \* self.price_history: symbol -> sequence of rows
    fed,            \* every row ever given to add_price_data, per symbol
    stats,          \* the last get_price_statistics call since the last write
    adding,         \* the symbol of the add_price_data call that has stored
                    \* the concatenated frame and not yet applied the cap
    indicators,     \* what calculate_technical_indicators returned last
    signals,        \* what get_trading_signals returned last
    \* ---- OrderMonitor
    running,        \* self.running
    orders,         \* self.orders: the registry, in dict (insertion) order
    lock,           \* self.lock: "free", or who holds it ("loop", "caller")
    loops,          \* the live threads running _monitor_loop: a bag of frames
    ui,             \* the calling (UI) thread: its position in add_limit_order &c.
    nextId,         \* number of order ids generated so far (uuid4 is fresh)
    placed,         \* order id -> number of place_order calls made for it
    attempted,      \* order ids for which an execution attempt has begun
    lastExec,       \* the last place_order call of a loop: how it ended, the
                    \* severity notified, whether the price in the fill
                    \* message is the price place_order traded at, and whether
                    \* that price satisfies the order's trigger
    ioLocked,       \* TRUE once a thread fetched prices or placed an order
                    \* while holding the lock
    regime,         \* the Quote Feed as the loops see it: "any" (a fetch may
                    \* raise, return no data or any quotes), or "good" (from
                    \* here on every fetch returns quotes that trigger)
    raised          \* TRUE when the last price fetch of a loop raised (cleared
                    \* by a fetch that returns, and when a loop ends)

ledgerVars  == <<balance, positions, nops, last>>
quoteVars   == <<quote>>
convVars    == <<conv>>
saxoVars    == <<saxo>>
historyVars == <<price_history, fed, stats>>
signalVars  == <<indicators, signals>>
monitorVars == <<running, orders, lock, loops, ui, nextId, placed, attempted,
                 lastExec, ioLocked, raised>>
feedVars    == <<regime>>
stepVars    == <<submit, adding>>
vars == <<ledgerVars, quoteVars, convVars, saxoVars, historyVars, signalVars,
         monitorVars, feedVars, stepVars>>

\* what an action of one component leaves alone
pureVars   == <<quoteVars, convVars, saxoVars>>
loopVars   == <<monitorVars, feedVars>>
offSubmit  == <<last, pureVars, historyVars, signalVars, loopVars, adding>>
offIngest  == <<ledgerVars, pureVars, signalVars, loopVars, submit>>
offLedger  == <<pureVars, historyVars, signalVars, loopVars, stepVars>>
offQuote   == <<ledgerVars, convVars, saxoVars, historyVars, signalVars, loopVars, stepVars>>
offConv    == <<ledgerVars, quoteVars, saxoVars, historyVars, signalVars, loopVars, stepVars>>
offSaxo    == <<ledgerVars, quoteVars, convVars, historyVars, signalVars, loopVars, stepVars>>
offHistory == <<ledgerVars, pureVars, signalVars, loopVars, stepVars>>
offSignals == <<ledgerVars, pureVars, historyVars, loopVars, stepVars>>
offMonitor == <<ledgerVars, pureVars, historyVars, signalVars, feedVars, stepVars>>
offFeed    == <<ledgerVars, pureVars, historyVars, signalVars, monitorVars, stepVars>>

-----------------------------------------------------------------------------
(* Rational arithmetic standing for Python's float arithmetic.             *)

Abs(n) == IF n < 0 THEN -n ELSE n

RECURSIVE GCD(_, _)
GCD(a, b) == IF b = 0 THEN a ELSE GCD(b, a % b)

Norm(n, d) ==
    LET s == IF d < 0 THEN -1 ELSE 1
        g == GCD(Abs(n), Abs(d))
    IN  <<(s * n) \div g, (s * d) \div g>>

R(n)       == <<n, 1>>
Frac(n, d) == Norm(n, d)
RAdd(a, b) == Norm(a[1] * b[2] + b[1] * a[2], a[2] * b[2])
RSub(a, b) == Norm(a[1] * b[2] - b[1] * a[2], a[2] * b[2])
RMul(a, b) == Norm(a[1] * b[1], a[2] * b[2])
RDiv(a, b) == Norm(a[1] * b[2], a[2] * b[1])
RGt(a, b)  == a[1] * b[2] > b[1] * a[2]
RZero(a)   == a[1] = 0

-----------------------------------------------------------------------------
(* YahooFinanceDataSource: the simulated ledger.                           *)

NoPrice == <<0, 0>>   \* stands for "no quote": never a rational (denominator 0)

\* UIC_TO_TICKER; 99 stands for an instrument id the table does not hold.
UIC_TO_TICKER ==
    [u \in {16, 21, 31, 22, 17} |->
        CASE u = 16 -> "EURDKK=X"
          [] u = 21 -> "EURUSD=X"
          [] u = 31 -> "JPY=X"
          [] u = 22 -> "GBPUSD=X"
          [] u = 17 -> "EURGBP=X"]

TICKER_TO_SYMBOL ==
    [t \in {"EURDKK=X", "EURUSD=X", "JPY=X", "GBPUSD=X", "EURGBP=X"} |->
        CASE t = "EURDKK=X" -> "EUR/DKK"
          [] t = "EURUSD=X" -> "EUR/USD"
          [] t = "JPY=X"    -> "USD/JPY"
          [] t = "GBPUSD=X" -> "GBP/USD"
          [] t = "EURGBP=X" -> "EUR/GBP"]

LedgerUics == {21, 31, 17, 16, 99}

\* The mid prices the Quote Feed may report for an instrument (the feed is
\* external: each call draws one of them).
FeedPrices(u) ==
    CASE u = 21 -> {Frac(11, 10), Frac(12, 10)}
      [] u = 31 -> {R(149), R(150)}
      [] u = 17 -> {Frac(86, 100)}
      [] u = 16 -> {Frac(745, 100)}
      [] u = 22 -> {Frac(127, 100)}
      [] OTHER  -> {}

\* The results of the reference-pair lookup inside _convert_value_to_usd:
\* a mid price, or NoPrice when the lookup raises or yields no data.
AuxQuotes(u) ==
    CASE u = 17 -> FeedPrices(22) \cup {NoPrice}
      [] u = 16 -> FeedPrices(21) \cup {NoPrice}
      [] OTHER  -> {NoPrice}

Amounts == {0, 100000, 1000000}
Sides   == {"Buy", "Sell"}

InitialBalance == R(1000000)

\* a conversion that gives up the value when the reference lookup fails
ConvertValueToUsdOrZero(value, uic, price, aux) ==
    IF uic \in {16, 17} /\ aux = NoPrice THEN R(0)
    ELSE IF uic = 31 THEN (IF ~RZero(price) THEN RDiv(value, price) ELSE R(0))
    ELSE IF uic = 17 THEN RMul(value, aux)
    ELSE IF uic = 16 /\ ~RZero(price) THEN RDiv(RMul(value, aux), price)
    ELSE value

\* a conversion that treats EUR/DKK as EUR/GBP: no division by the pair price
ConvertValueToUsdNoDivide(value, uic, price, aux) ==
    IF uic = 31 THEN (IF ~RZero(price) THEN RDiv(value, price) ELSE R(0))
    ELSE IF uic \in {16, 17} /\ aux # NoPrice THEN RMul(value, aux)
    ELSE value

\* _convert_value_to_usd(value, uic, current_pair_price); aux is what the
\* nested get_prices call returned.
ConvertValueToUsd(value, uic, price, aux) ==
    IF uic \notin DOMAIN UIC_TO_TICKER THEN value
    ELSE LET ticker == UIC_TO_TICKER[uic] IN
         CASE ticker \in {"EURUSD=X", "GBPUSD=X"} -> value
           [] ticker = "JPY=X" ->
                IF ~RZero(price) THEN RDiv(value, price) ELSE R(0)
           [] ticker = "EURGBP=X" ->
                IF aux # NoPrice THEN RMul(value, aux) ELSE value
           [] ticker = "EURDKK=X" ->
                IF aux # NoPrice /\ ~RZero(price)
                THEN RDiv(RMul(value, aux), price) ELSE value
           [] OTHER -> value

\* get_prices([uic]): empty Data for an instrument the table does not hold.
HasQuote(uic) == uic \in DOMAIN UIC_TO_TICKER

\* a ledger that makes no funds check
InsufficientFundsUnchecked(cost, cash) == FALSE

InsufficientFunds(cost, cash) == RGt(cost, cash)

\* an average that ignores the amounts
NewAvgPriceUnweighted(pos, amount, price) ==
    RDiv(RAdd(pos.open_price, price), R(2))

\* The weighted-average cost of a position after adding `amount` at `price`.
NewAvgPrice(pos, amount, price) ==
    RDiv(RAdd(RMul(R(pos.amount), pos.open_price), RMul(R(amount), price)),
         R(pos.amount + amount))

\* a sell that does not clamp
SellAmountUnclamped(amount, pos) == amount

\* The amount a sell takes from a position.
SellAmount(amount, pos) == IF amount > pos.amount THEN pos.amount ELSE amount

\* a delete that leaves the entry where it is
DropKeyKept(f, k) == f

\* del f[k]
DropKey(f, k) == [x \in DOMAIN f \ {k} |-> f[x]]

\* an assignment that forgets the other keys
PutKeyAlone(f, k, v) == [x \in {k} |-> v]

\* f[k] = v
PutKey(f, k, v) == [x \in DOMAIN f \cup {k} |-> IF x = k THEN v ELSE f[x]]

\* place_order's buy branch: [balance, positions, result].
PlaceBuy(cash, pos, uic, amount, price, aux, now) ==
    LET cost == ConvertValueToUsd(RMul(R(amount), price), uic, price, aux) IN
    IF InsufficientFunds(cost, cash)
    THEN [balance |-> cash, positions |-> pos, result |-> "InsufficientFunds"]
    ELSE IF uic \in DOMAIN pos
    THEN IF pos[uic].amount + amount = 0
         \* ZeroDivisionError, raised after the debit
         THEN [balance |-> RSub(cash, cost), positions |-> pos, result |-> "raise"]
         ELSE [balance |-> RSub(cash, cost),
               positions |-> [pos EXCEPT ![uic].amount = @ + amount,
                                         ![uic].open_price =
                                             NewAvgPrice(pos[uic], amount, price)],
               result |-> "Filled"]
    ELSE [balance |-> RSub(cash, cost),
          positions |-> PutKey(pos, uic, [amount |-> amount, open_price |-> price,
                                          opened_time |-> now]),
          result |-> "Filled"]

\* a sell without a position that is reported as filled
NoPositionFilled(cash, pos) ==
    [balance |-> cash, positions |-> pos, result |-> "Filled"]

\* return {"error": "Cannot Sell: No position open"}
NoPositionError(cash, pos) ==
    [balance |-> cash, positions |-> pos, result |-> "NoPosition"]

\* place_order's sell branch.
PlaceSell(cash, pos, uic, amount, price, aux) ==
    IF uic \notin DOMAIN pos
    THEN NoPositionError(cash, pos)
    ELSE LET sold     == SellAmount(amount, pos[uic])
             proceeds == ConvertValueToUsd(RMul(R(sold), price), uic, price, aux)
             left     == pos[uic].amount - sold
         IN  [balance |-> RAdd(cash, proceeds),
              positions |-> IF left <= 0 THEN DropKey(pos, uic)
                            ELSE [pos EXCEPT ![uic].amount = left],
              result |-> "Filled"]

\* an order without a price that is reported as filled
NoPriceFilled(cash, pos) ==
    [balance |-> cash, positions |-> pos, result |-> "Filled"]

\* return {"error": "Could not fetch price"}
NoPriceError(cash, pos) ==
    [balance |-> cash, positions |-> pos, result |-> "NoPrice"]

\* place_order(instrument, amount, buy_sell): price is the mid the ledger's own
\* get_prices call returned.
PlaceOrder(cash, pos, uic, amount, side, price, aux, now) ==
    IF ~HasQuote(uic)
    THEN NoPriceError(cash, pos)
    ELSE IF side = "Buy"
         THEN PlaceBuy(cash, pos, uic, amount, price, aux, now)
         ELSE PlaceSell(cash, pos, uic, amount, price, aux)

\* the order_type, price and duration arguments a caller may pass
OrderArgs ==
    {[order_type |-> "Market", price |-> NoPrice, duration |-> "G.T.C"],
     [order_type |-> "Limit", price |-> R(1), duration |-> "Day"]}

\* a ledger that lets a limit order rest instead of filling it
PlaceOrderCallResting(cash, pos, uic, amount, side, args, price, aux, now) ==
    IF args.order_type = "Limit"
    THEN [balance |-> cash, positions |-> pos, result |-> "Working"]
    ELSE PlaceOrder(cash, pos, uic, amount, side, price, aux, now)

\* place_order(instrument, amount, buy_sell, order_type, price, duration): the
\* body reads none of the last three
PlaceOrderCall(cash, pos, uic, amount, side, args, price, aux, now) ==
    PlaceOrder(cash, pos, uic, amount, side, price, aux, now)

NoCall == [op |-> "none"]

MaxOps == 3

LedgerInit ==
    /\ balance = InitialBalance
    /\ positions = << >>
    /\ nops = 0
    /\ last = NoCall

LedgerPlaceOrder ==
    /\ nops < MaxOps
    /\ \E uic \in LedgerUics, amount \in Amounts, side \in Sides,
          args \in OrderArgs :
       \E price \in (IF HasQuote(uic) THEN FeedPrices(uic) ELSE {NoPrice}),
          aux \in AuxQuotes(uic) :
         LET r == PlaceOrderCall(balance, positions, uic, amount, side, args,
                                 price, aux, nops) IN
         /\ balance' = r.balance
         /\ positions' = r.positions
         /\ nops' = nops + 1
         /\ last' = [op |-> "place_order", uic |-> uic, amount |-> amount,
                     side |-> side, args |-> args, price |-> price, aux |-> aux,
                     cash0 |-> balance, pos0 |-> positions, result |-> r.result]
    /\ UNCHANGED offLedger

\* ---- get_balance and get_positions

\* What the valuation of the positions may be given by the feed: for each
\* held instrument its mid, and the result of the reference lookup in each of
\* the two conversions (of the market value, of the profit)
ValuationsOf(u) ==
    [price : FeedPrices(u), aux : AuxQuotes(u), aux_pnl : AuxQuotes(u)]

RECURSIVE ValuationsOver(_)
ValuationsOver(uics) ==
    IF uics = {} THEN {<< >>}
    ELSE LET u == CHOOSE x \in uics : TRUE IN
         {(u :> r) @@ q : r \in ValuationsOf(u), q \in ValuationsOver(uics \ {u})}

Valuations(pos) == ValuationsOver(DOMAIN pos)

\* market_val_usd of the position in u
MarketValUsd(pos, q, u) ==
    ConvertValueToUsd(RMul(R(pos[u].amount), q[u].price), u, q[u].price, q[u].aux)

\* usd_pnl of the position in u
UsdPnl(pos, q, u) ==
    ConvertValueToUsd(RMul(RSub(q[u].price, pos[u].open_price), R(pos[u].amount)),
                      u, q[u].price, q[u].aux_pnl)

RECURSIVE InvestedValueUsd(_, _, _)
\* invested_value_usd after get_balance's for loop over the instruments uics
InvestedValueUsd(pos, q, uics) ==
    IF uics = {} THEN R(0)
    ELSE LET u == CHOOSE x \in uics : TRUE IN
         RAdd(MarketValUsd(pos, q, u), InvestedValueUsd(pos, q, uics \ {u}))

RECURSIVE UnrealizedPnl(_, _, _)
\* unrealized_pnl after get_balance's for loop over the instruments uics
UnrealizedPnl(pos, q, uics) ==
    IF uics = {} THEN R(0)
    ELSE LET u == CHOOSE x \in uics : TRUE IN
         RAdd(UsdPnl(pos, q, u), UnrealizedPnl(pos, q, uics \ {u}))

\* a utilisation reported as a fraction
MarginPctFraction(invested_value_usd, total_value) ==
    IF RGt(total_value, R(0)) THEN RDiv(invested_value_usd, total_value) ELSE R(0)

\* 'MarginUtilizationPct'
MarginPct(invested_value_usd, total_value) ==
    IF RGt(total_value, R(0))
    THEN RMul(RDiv(invested_value_usd, total_value), R(100))
    ELSE R(0)

\* get_balance(), the valuation being q
GetBalance(cash, pos, q) ==
    LET invested_value_usd == InvestedValueUsd(pos, q, DOMAIN pos)
        unrealized_pnl     == UnrealizedPnl(pos, q, DOMAIN pos)
        total_value        == RAdd(cash, invested_value_usd)
    IN  [CashBalance                  |-> cash,
         CashAvailableForTrading      |-> cash,
         UnrealizedMarginProfitLoss   |-> unrealized_pnl,
         TotalValue                   |-> total_value,
         OpenPositionsCount           |-> Cardinality(DOMAIN pos),
         MarginUsedByCurrentPositions |-> invested_value_usd,
         MarginUtilizationPct         |-> MarginPct(invested_value_usd, total_value)]

\* get_positions(), the valuation being q: the entry of each position
GetPositions(pos, q) ==
    [u \in DOMAIN pos |->
        [Uic          |-> u,
         Amount       |-> pos[u].amount,
         OpenPrice    |-> pos[u].open_price,
         CurrentPrice |-> q[u].price,
         ProfitLoss   |-> UsdPnl(pos, q, u),
         MarketValue  |-> RMul(R(pos[u].amount), q[u].price)]]

\* get_balance() is called
LedgerGetBalance ==
    /\ nops < MaxOps
    /\ \E q \in Valuations(positions) :
        last' = [op |-> "get_balance", quotes |-> q, cash0 |-> balance,
                 pos0 |-> positions, result |-> GetBalance(balance, positions, q)]
    /\ nops' = nops + 1
    /\ UNCHANGED <<balance, positions>>
    /\ UNCHANGED offLedger

\* get_positions() is called
LedgerGetPositions ==
    /\ nops < MaxOps
    /\ \E q \in Valuations(positions) :
        /\ \A u \in DOMAIN positions : q[u].aux = q[u].aux_pnl
        /\ last' = [op |-> "get_positions", quotes |-> q, cash0 |-> balance,
                    pos0 |-> positions, result |-> GetPositions(positions, q)]
    /\ nops' = nops + 1
    /\ UNCHANGED <<balance, positions>>
    /\ UNCHANGED offLedger

-----------------------------------------------------------------------------
(* YahooFinanceDataSource.get_prices.                                      *)

\* the defaults of get_prices
Defaults(ticker) ==
    CASE ticker = "EURUSD=X" -> Frac(109, 100)
      [] ticker = "EURDKK=X" -> Frac(745, 100)
      [] ticker = "JPY=X"    -> R(149)
      [] ticker = "GBPUSD=X" -> Frac(127, 100)
      [] ticker = "EURGBP=X" -> Frac(86, 100)
      [] OTHER               -> R(1)

\* What a ticker.history(...) call of the Quote Feed may do: raise (or give
\* rows without a usable close, which raises as well), return an empty frame,
\* or return rows with a last close.
FeedOutcomes(uic) ==
    {[kind |-> "raise"], [kind |-> "empty"]}
        \cup {[kind |-> "rows", close |-> p] : p \in FeedPrices(uic)}

\* current_price after the try block: the last close of the 1m history, else
\* that of the 5m history, else None (NoPrice)
FeedPrice(m1, m5) ==
    IF m1.kind = "rows" THEN m1.close
    ELSE IF m1.kind = "empty" /\ m5.kind = "rows" THEN m5.close
    ELSE NoPrice

\* the entry appended to data_list
QuoteEntry(uic, current_price) ==
    LET spread == RMul(current_price, Frac(1, 10000)) IN
    [Uic    |-> uic,
     Mid    |-> current_price,
     Bid    |-> RSub(current_price, RDiv(spread, R(2))),
     Ask    |-> RAdd(current_price, RDiv(spread, R(2))),
     Symbol |-> TICKER_TO_SYMBOL[UIC_TO_TICKER[uic]]]

\* a get_prices that leaves out an instrument the feed has no price for
QuotesForNoDefault(uic, m1, m5) ==
    IF uic \notin DOMAIN UIC_TO_TICKER \/ FeedPrice(m1, m5) = NoPrice THEN << >>
    ELSE <<QuoteEntry(uic, FeedPrice(m1, m5))>>

\* one turn of get_prices' for loop: the entries it appends for uic
QuotesFor(uic, m1, m5) ==
    IF uic \notin DOMAIN UIC_TO_TICKER THEN << >>
    ELSE <<QuoteEntry(uic, IF FeedPrice(m1, m5) = NoPrice
                           THEN Defaults(UIC_TO_TICKER[uic])
                           ELSE FeedPrice(m1, m5))>>

RECURSIVE DataList(_, _)
\* data_list for the instruments, feed[k] being what the feed does for the
\* k-th of them
DataList(instruments, feed) ==
    IF instruments = << >> THEN << >>
    ELSE QuotesFor(Head(instruments), Head(feed).m1, Head(feed).m5)
             \o DataList(Tail(instruments), Tail(feed))

\* get_prices(instruments)
GetPrices(instruments, feed) == [Data |-> DataList(instruments, feed)]

\* the instrument lists asked for
QuoteRequests == {<< >>, <<21>>, <<31>>, <<22>>, <<99>>, <<99, 21, 22>>}

\* what the feed may do for each instrument of a request (nothing is asked
\* of it for an instrument the table does not hold)
NoFeed == [m1 |-> [kind |-> "raise"], m5 |-> [kind |-> "raise"]]
FeedsFor(uic) ==
    IF uic \in DOMAIN UIC_TO_TICKER
    THEN [m1 : FeedOutcomes(uic), m5 : FeedOutcomes(uic)]
    ELSE {NoFeed}

RECURSIVE Feeds(_)
Feeds(instruments) ==
    IF instruments = << >> THEN {<< >>}
    ELSE {<<h>> \o t : h \in FeedsFor(Head(instruments)),
                       t \in Feeds(Tail(instruments))}

QuoteInit == quote = [op |-> "none"]

\* get_prices(instruments) is called
QuoteGetPrices ==
    /\ \E instruments \in QuoteRequests :
       \E feed \in Feeds(instruments) :
         quote' = [op |-> "get_prices", instruments |-> instruments,
                   feed |-> feed, result |-> GetPrices(instruments, feed)]
    /\ UNCHANGED offQuote

\* ---- the ledger's other methods, called on a ledger with cash and positions

\* the instrument lists asked of the ledger's get_prices
LedgerRequests == {<<21>>, <<99>>}

\* get_prices(instruments) is called on the ledger
LedgerGetPrices ==
    /\ nops < MaxOps
    /\ \E instruments \in LedgerRequests :
       \E feed \in Feeds(instruments) :
         last' = [op |-> "get_prices", cash0 |-> balance, pos0 |-> positions,
                  result |-> GetPrices(instruments, feed)]
    /\ nops' = nops + 1
    /\ UNCHANGED <<balance, positions>>
    /\ UNCHANGED offLedger

\* get_orders(): return {"Data": []}
LedgerGetOrders ==
    /\ nops < MaxOps
    /\ last' = [op |-> "get_orders", cash0 |-> balance, pos0 |-> positions,
                result |-> [Data |-> << >>]]
    /\ nops' = nops + 1
    /\ UNCHANGED <<balance, positions>>
    /\ UNCHANGED offLedger

\* a cancel that closes the positions
CancelOrderClosing(cash, pos, order_id) ==
    [balance |-> cash, positions |-> << >>, result |-> "Order cancelled"]

\* cancel_order(order_id): return {"Message": "Order cancelled"}
CancelOrder(cash, pos, order_id) ==
    [balance |-> cash, positions |-> pos, result |-> "Order cancelled"]

\* the order ids a caller may pass: the ledger gives "PAPER_<time>" ids
CancelIds == {"PAPER_1", "unknown"}

\* cancel_order(order_id) is called
LedgerCancelOrder ==
    /\ nops < MaxOps
    /\ \E order_id \in CancelIds :
        LET r == CancelOrder(balance, positions, order_id) IN
        /\ balance' = r.balance
        /\ positions' = r.positions
        /\ last' = [op |-> "cancel_order", order_id |-> order_id,
                    cash0 |-> balance, pos0 |-> positions, result |-> r.result]
    /\ nops' = nops + 1
    /\ UNCHANGED offLedger

-----------------------------------------------------------------------------
(* YahooFinanceDataSource.place_order entered by two threads: the polling  *)
(* thread (OrderMonitor._execute_order) and the UI thread                  *)
(* (TradingScreen.place_order). The body takes no lock; a thread may be    *)
(* suspended between any two of its reads and writes of self.balance. The  *)
(* reads and writes of self.positions of one call are taken as one step.   *)

Submitters == {"monitor", "manual"}

SubmitUics    == {21, 99}
SubmitAmounts == {100000, 800000}

\* a thread outside place_order
IdleCall ==
    [pc |-> "idle", instrument |-> 0, amount |-> 0, is_buy |-> TRUE,
     current_price |-> NoPrice, value_usd |-> R(0), loaded |-> R(0)]

SubmitInit == submit = [t \in Submitters |-> IdleCall]

\* the thread's call moves to frame c
Goes(t, c) == submit' = [submit EXCEPT ![t] = c]

\* place_order is entered: get_prices, the mid price, is_buy and
\* transaction_value_usd; an instrument without a quote returns the error
SubmitEnter(t) ==
    /\ submit[t].pc = "idle"
    /\ nops < MaxOps
    /\ \E instrument \in SubmitUics, amount \in SubmitAmounts, side \in Sides :
        IF ~HasQuote(instrument)
        THEN Goes(t, IdleCall)
        ELSE \E current_price \in FeedPrices(instrument),
                aux \in AuxQuotes(instrument) :
                Goes(t, [IdleCall EXCEPT
                    !.pc = "branch", !.instrument = instrument,
                    !.amount = amount, !.is_buy = (side = "Buy"),
                    !.current_price = current_price,
                    !.value_usd = ConvertValueToUsd(
                        RMul(R(amount), current_price), instrument,
                        current_price, aux)])
    /\ nops' = nops + 1
    /\ UNCHANGED <<balance, positions>>
    /\ UNCHANGED offSubmit

\* if transaction_value_usd > self.balance: return the error (buy);
\* if instrument not in self.positions: return the error, else clamp the
\* amount and compute sell_value_usd (sell)
SubmitBranch(t) ==
    LET c == submit[t] IN
    /\ c.pc = "branch"
    /\ IF c.is_buy
       THEN IF InsufficientFunds(c.value_usd, balance)
            THEN Goes(t, IdleCall)
            ELSE Goes(t, [c EXCEPT !.pc = "load"])
       ELSE IF c.instrument \notin DOMAIN positions
            THEN Goes(t, IdleCall)
            ELSE LET sold == SellAmount(c.amount, positions[c.instrument]) IN
                 \E aux \in AuxQuotes(c.instrument) :
                    Goes(t, [c EXCEPT
                        !.pc = "load", !.amount = sold,
                        !.value_usd = ConvertValueToUsd(
                            RMul(R(sold), c.current_price), c.instrument,
                            c.current_price, aux)])
    /\ UNCHANGED <<balance, positions, nops>>
    /\ UNCHANGED offSubmit

\* self.balance -= ... / self.balance += ... : the attribute is read
SubmitLoad(t) ==
    LET c == submit[t] IN
    /\ c.pc = "load"
    /\ Goes(t, [c EXCEPT !.pc = "store", !.loaded = balance])
    /\ UNCHANGED <<balance, positions, nops>>
    /\ UNCHANGED offSubmit

\* self.balance -= ... / self.balance += ... : the attribute is written
SubmitStore(t) ==
    LET c == submit[t] IN
    /\ c.pc = "store"
    /\ balance' = IF c.is_buy THEN RSub(c.loaded, c.value_usd)
                  ELSE RAdd(c.loaded, c.value_usd)
    /\ Goes(t, [c EXCEPT !.pc = "book"])
    /\ UNCHANGED <<positions, nops>>
    /\ UNCHANGED offSubmit

\* the position is averaged or created (buy), reduced or deleted (sell); a
\* position another thread deleted meanwhile makes the sell raise KeyError
SubmitBook(t) ==
    LET c   == submit[t]
        uic == c.instrument
    IN
    /\ c.pc = "book"
    /\ positions' =
        IF c.is_buy
        THEN IF uic \in DOMAIN positions
             THEN IF positions[uic].amount + c.amount = 0 THEN positions
                  ELSE [positions EXCEPT
                           ![uic].amount = @ + c.amount,
                           ![uic].open_price =
                               NewAvgPrice(positions[uic], c.amount,
                                           c.current_price)]
             ELSE PutKey(positions, uic,
                         [amount |-> c.amount, open_price |-> c.current_price,
                          opened_time |-> nops])
        ELSE IF uic \notin DOMAIN positions THEN positions
             ELSE IF positions[uic].amount - c.amount <= 0
                  THEN DropKey(positions, uic)
                  ELSE [positions EXCEPT ![uic].amount = @ - c.amount]
    /\ Goes(t, IdleCall)
    /\ UNCHANGED <<balance, nops>>
    /\ UNCHANGED offSubmit

-----------------------------------------------------------------------------
(* YahooFinanceDataSource._convert_value_to_usd, called on its own.        *)

\* the values converted: costs, proceeds and (negative) profits
ConvValues == {R(-1000), R(0), R(1000), R(7450), R(149000), R(1000000)}

\* the instruments a value is converted for
ConvUics == {21, 22, 31, 17, 16, 99}

\* the pair prices passed in: a mid of the feed, or 0
ConvPrices(uic) == (IF HasQuote(uic) THEN FeedPrices(uic) ELSE {R(1)}) \cup {R(0)}

ConvInit == conv = [op |-> "none"]

\* _convert_value_to_usd(value, uic, current_pair_price) is called
ConvCall ==
    /\ \E value \in ConvValues, uic \in ConvUics :
       \E price \in ConvPrices(uic), aux \in AuxQuotes(uic) :
         conv' = [op |-> "convert", value |-> value, uic |-> uic,
                  price |-> price, aux |-> aux,
                  result |-> ConvertValueToUsd(value, uic, price, aux)]
    /\ UNCHANGED offConv

-----------------------------------------------------------------------------
(* SaxoDataSource.get_balance: the live source's balance.                  *)

Malformed == 1          \* stands for an amount float() raises on (None, "n/a")

\* what the broker may report for one position
SaxoPositionEntries ==
    [Amount : {-1000, 1000, Malformed}, CurrentPrice : {0, 2}, OpenPrice : {1, 3}]

\* positions_data: an answer without 'Data', or up to two positions
SaxoPositionsData ==
    {<< >>} \cup {[Data |-> d] : d \in {<< >>}
                     \cup {<<a>> : a \in SaxoPositionEntries}
                     \cup {<<a, b>> : a \in SaxoPositionEntries,
                                      b \in SaxoPositionEntries}}

\* balance_data: the broker's own figures
SaxoBalanceData ==
    [TotalValue : {-500, 0, 1000, 5000}, CashBalance : {777},
     CashAvailableForTrading : {888}]

\* a valuation that never falls back to the open price
PositionPriceCurrent(current_price, open_price) == current_price

\* price = CurrentPrice, or OpenPrice when that is 0
PositionPrice(current_price, open_price) ==
    IF current_price = 0 THEN open_price ELSE current_price

RECURSIVE FullInvestedValue(_)
\* full_invested_value after the for loop over positions_data["Data"]; a
\* position whose fields do not parse is passed over
FullInvestedValue(data) ==
    IF data = << >> THEN 0
    ELSE LET pos == Head(data) IN
         (IF pos.Amount = Malformed THEN 0
          ELSE Abs(pos.Amount * PositionPrice(pos.CurrentPrice, pos.OpenPrice)))
             + FullInvestedValue(Tail(data))

\* get_balance(): balance_data with the four figures overridden
SaxoGetBalanceResult(balance_data, positions_data) ==
    LET full_invested_value ==
            IF "Data" \in DOMAIN positions_data
            THEN FullInvestedValue(positions_data.Data) ELSE 0
        total_equity == balance_data.TotalValue
        simulated_cash_available == total_equity - full_invested_value
    IN  [MarginUsedByCurrentPositions |-> full_invested_value,
         CashAvailableForTrading      |-> simulated_cash_available,
         CashBalance                  |-> simulated_cash_available,
         MarginUtilizationPct         |->
             IF total_equity > 0
             THEN RMul(RDiv(R(full_invested_value), R(total_equity)), R(100))
             ELSE R(0)]
        @@ balance_data

SaxoInit == saxo = [op |-> "none"]

\* get_balance() of the live source is called
SaxoGetBalance ==
    /\ \E balance_data \in SaxoBalanceData, positions_data \in SaxoPositionsData :
        saxo' = [op |-> "get_balance", balance_data |-> balance_data,
                 positions_data |-> positions_data,
                 result |-> SaxoGetBalanceResult(balance_data, positions_data)]
    /\ UNCHANGED offSaxo

-----------------------------------------------------------------------------
(* FXDataHandler: the rolling price history.                               *)

MaxHistory == 1000      \* data_handler.py: the cap on a symbol's rows

Symbols == {"EUR/USD", "USD/JPY"}

MaxAdds  == 1003        \* add_price_data calls modelled in a run
FreeAdds == 2           \* the first calls draw any symbol and price; after
                        \* them the stream feeds one symbol, cycling prices

\* The symbols and prices the n-th add_price_data call may carry.
SymbolStream(n) == IF n < FreeAdds THEN Symbols ELSE {"EUR/USD"}
PriceStream(n)  == IF n < FreeAdds THEN {0, 2} ELSE {1 + (n % 3)}

\* DataFrame.tail(k).reset_index(drop=True)
TailRows(rows, k) ==
    IF Len(rows) <= k THEN rows ELSE SubSeq(rows, Len(rows) - k + 1, Len(rows))

\* a cap that keeps the oldest rows
CappedOldest(rows) ==
    IF Len(rows) > MaxHistory THEN SubSeq(rows, 1, MaxHistory) ELSE rows

\* The cap applied after the concat.
Capped(rows) == IF Len(rows) > MaxHistory THEN TailRows(rows, MaxHistory) ELSE rows

\* add_price_data(symbol, price, timestamp): the symbol's sequence afterwards.
AddPriceData(hist, symbol, price, timestamp) ==
    LET old == IF symbol \in DOMAIN hist THEN hist[symbol] ELSE << >>
        row == [timestamp |-> timestamp, price |-> price]
    IN  PutKey(hist, symbol, Capped(Append(old, row)))

TotalFed == Len(fed["EUR/USD"]) + Len(fed["USD/JPY"])

\* a percentage taken of the last price
PriceChangePctOfLast(last_price, prev_price) ==
    IF last_price # 0
    THEN RMul(RDiv(R(last_price - prev_price), R(last_price)), R(100))
    ELSE R(0)

\* get_price_statistics: 'price_change_pct'
PriceChangePct(last_price, prev_price) ==
    IF prev_price # 0
    THEN RMul(RDiv(R(last_price - prev_price), R(prev_price)), R(100))
    ELSE R(0)

\* get_price_statistics(symbol) on the history `hist`: {} below two points.
\* The mean, the standard deviation and the volatility (a square root) are
\* left out of the result.
GetPriceStatistics(hist, symbol) ==
    IF symbol \notin DOMAIN hist \/ Len(hist[symbol]) < 2 THEN << >>
    ELSE LET rows == hist[symbol]
             n    == Len(rows)
         IN  [current_price    |-> rows[n].price,
              price_change     |-> rows[n].price - rows[n - 1].price,
              price_change_pct |-> PriceChangePct(rows[n].price, rows[n - 1].price),
              data_points      |-> n]

NoStats == [op |-> "none"]

HistoryInit ==
    /\ price_history = << >>
    /\ fed = [s \in Symbols |-> << >>]
    /\ stats = NoStats

HistoryAdd ==
    /\ TotalFed < MaxAdds
    /\ \E symbol \in SymbolStream(TotalFed), price \in PriceStream(TotalFed) :
        /\ price_history' = AddPriceData(price_history, symbol, price, TotalFed)
        /\ fed' = [fed EXCEPT ![symbol] =
                      Append(@, [timestamp |-> TotalFed, price |-> price])]
    /\ stats' = NoStats
    /\ UNCHANGED offHistory

\* get_price_statistics(symbol) is called
HistoryStats ==
    /\ \E symbol \in Symbols :
        stats' = [op |-> "get_price_statistics", symbol |-> symbol,
                  result |-> GetPriceStatistics(price_history, symbol)]
    /\ UNCHANGED <<price_history, fed>>
    /\ UNCHANGED offHistory

-----------------------------------------------------------------------------
(* FXDataHandler.add_price_data on the ingestion thread                    *)
(* (fetch_prices_background) while the UI thread reads: no lock is taken,  *)
(* and the concatenated frame is stored before the cap is applied.         *)

NotAdding == "none"

IngestInit == adding = NotAdding

\* self.price_history[symbol] = pd.concat([...], ignore_index=True)
Concatenated(hist, symbol, price, timestamp) ==
    LET old == IF symbol \in DOMAIN hist THEN hist[symbol] ELSE << >>
        row == [timestamp |-> timestamp, price |-> price]
    IN  PutKey(hist, symbol, Append(old, row))

\* add_price_data up to and including the store of the concatenated frame
IngestConcat ==
    /\ adding = NotAdding
    /\ TotalFed < MaxAdds
    /\ \E symbol \in SymbolStream(TotalFed), price \in PriceStream(TotalFed) :
        /\ price_history' = Concatenated(price_history, symbol, price, TotalFed)
        /\ fed' = [fed EXCEPT ![symbol] =
                      Append(@, [timestamp |-> TotalFed, price |-> price])]
        /\ adding' = symbol
    /\ stats' = NoStats
    /\ UNCHANGED offIngest

\* if len(self.price_history[symbol]) > 1000: keep the tail; the call returns
IngestCap ==
    /\ adding # NotAdding
    /\ price_history' = PutKey(price_history, adding, Capped(price_history[adding]))
    /\ adding' = NotAdding
    /\ UNCHANGED <<fed, stats>>
    /\ UNCHANGED offIngest

\* get_price_statistics(symbol) on the UI thread, at any moment
IngestRead ==
    /\ \E symbol \in Symbols :
        stats' = [op |-> "get_price_statistics", symbol |-> symbol,
                  result |-> GetPriceStatistics(price_history, symbol)]
    /\ UNCHANGED <<price_history, fed, adding>>
    /\ UNCHANGED offIngest

-----------------------------------------------------------------------------
(* FXDataHandler.get_trading_signals.                                      *)

NaN == -2               \* float('nan'): truthy, and every comparison is False

\* the values calculate_technical_indicators may report (all are >= 0 here)
SmaValues   == {0, 1, 2}
RsiValues   == {0, 20, 30, 50, 70, 80, 100, NaN}
BandValues  == {0, 1, 2}
PriceValues == {0, 1, 2, 3}

\* Python truthiness of a float
Truthy(x) == x # 0
\* a > b on floats
FGt(a, b) == a # NaN /\ b # NaN /\ a > b

NoIndicators == << >>   \* {}: fewer than 20 points

\* the component signals of get_trading_signals
MaSignal(ind) ==
    IF Truthy(ind.sma_5) /\ Truthy(ind.sma_20)
    THEN [ma_signal |-> IF FGt(ind.sma_5, ind.sma_20) THEN "BUY"
                        ELSE IF FGt(ind.sma_20, ind.sma_5) THEN "SELL"
                        ELSE "HOLD"]
    ELSE << >>

RsiSignal(ind) ==
    IF Truthy(ind.rsi)
    THEN [rsi_signal |-> IF FGt(ind.rsi, 70) THEN "SELL"
                         ELSE IF FGt(30, ind.rsi) THEN "BUY"
                         ELSE "HOLD"]
    ELSE << >>

BbSignal(ind) ==
    IF Truthy(ind.bb_upper) /\ Truthy(ind.bb_lower) /\ Truthy(ind.current_price)
    THEN [bb_signal |-> IF FGt(ind.current_price, ind.bb_upper) THEN "SELL"
                        ELSE IF FGt(ind.bb_lower, ind.current_price) THEN "BUY"
                        ELSE "HOLD"]
    ELSE << >>

\* sum(1 for signal in signals.values() if signal == which)
CountSignals(sigs, which) == Cardinality({k \in DOMAIN sigs : sigs[k] = which})

\* an overall signal that resolves a tie as BUY
OverallTieBuys(buy_signals, sell_signals) ==
    IF buy_signals >= sell_signals THEN "BUY" ELSE "SELL"

\* the overall signal from the two counts
Overall(buy_signals, sell_signals) ==
    IF buy_signals > sell_signals THEN "BUY"
    ELSE IF sell_signals > buy_signals THEN "SELL"
    ELSE "HOLD"

\* get_trading_signals, given what calculate_technical_indicators returned
GetTradingSignals(ind) ==
    IF DOMAIN ind = {} THEN << >>
    ELSE LET sigs == MaSignal(ind) @@ RsiSignal(ind) @@ BbSignal(ind) IN
         sigs @@ [overall_signal |->
                     Overall(CountSignals(sigs, "BUY"), CountSignals(sigs, "SELL"))]

SignalInit ==
    /\ indicators = NoIndicators
    /\ signals = << >>

\* get_trading_signals(symbol) is called
SignalCall ==
    /\ \E ind \in {NoIndicators} \cup
                  [sma_5 : SmaValues, sma_20 : SmaValues, rsi : RsiValues,
                   bb_upper : BandValues, bb_lower : BandValues,
                   current_price : PriceValues] :
        /\ (DOMAIN ind # {} => ind.bb_lower <= ind.bb_upper)
        /\ indicators' = ind
        /\ signals' = GetTradingSignals(ind)
    /\ UNCHANGED offSignals

-----------------------------------------------------------------------------
(* OrderMonitor: the pending-order registry and its polling loops.         *)

MaxThreads == 2         \* polling-loop threads that may be alive at once
                        \* (a stop() that times out leaves its loop alive)
MaxOrders  == 1         \* order ids generated in a run

MonUics     == {21}
MonPrices   == {1, 2, 3}        \* mid prices, in units of the limit price / 2
LimitPrices == {2}
MonAmounts  == {1000}
AddSides    == {"buy", "BUY", "sell"}
NoId == 0               \* add_limit_order returned None (ids start at 1)

NoQuote == 0            \* _get_current_price returned None (prices are > 0)

\* str.lower() on the sides used
Lower(side) == CASE side = "BUY" -> "buy" [] side = "Buy" -> "buy"
                 [] side = "SELL" -> "sell" [] OTHER -> side

\* a side test that lets every side through
SideAcceptedAny(side) == TRUE

\* add_limit_order's side test
SideAccepted(side) == Lower(side) = "buy"

\* a choice that takes a limit equal to the current price for a breakout
TriggerConditionInclusive(limit_price, current_price) ==
    IF current_price = NoQuote THEN "le"
    ELSE IF limit_price >= current_price THEN "ge" ELSE "le"

\* add_limit_order's choice of trigger condition from the price it fetched
TriggerCondition(limit_price, current_price) ==
    IF current_price = NoQuote THEN "le"
    ELSE IF limit_price > current_price THEN "ge" ELSE "le"

\* a test that misses a price equal to the trigger
TriggeredStrict(order, current_price) ==
    IF order.trigger_condition = "le" THEN current_price < order.trigger_price
    ELSE IF order.trigger_condition = "ge" THEN current_price > order.trigger_price
    ELSE FALSE

\* _check_triggers' test of one order against the cycle's price
Triggered(order, current_price) ==
    IF order.trigger_condition = "le" THEN current_price <= order.trigger_price
    ELSE IF order.trigger_condition = "ge" THEN current_price >= order.trigger_price
    ELSE FALSE

\* a lookup that never finds a price
HasPriceNever(price_map, uic) == FALSE

\* price_map.get(order.uic) is not None
HasPrice(price_map, uic) == uic \in DOMAIN price_map

Ids(reg) == {reg[k].order_id : k \in 1..Len(reg)}

RECURSIVE Without(_, _)
\* del self.orders[order_id]: the dict keeps the others in insertion order
Without(reg, id) ==
    IF reg = << >> THEN << >>
    ELSE IF Head(reg).order_id = id THEN Without(Tail(reg), id)
    ELSE <<Head(reg)>> \o Without(Tail(reg), id)

\* an execution that does not test membership
StillPendingUntested(reg, id) == TRUE

\* _execute_order's membership test under the lock
StillPending(reg, id) == id \in Ids(reg)

\* an execution that leaves the order in the registry while it places it
AfterAttemptKept(reg, id) == reg

\* the registry after _execute_order's critical section
AfterAttempt(reg, id) == Without(reg, id)

\* an execution that puts the order back when place_order returns an error
AfterOutcomeRequeued(reg, order, outcome) ==
    IF outcome = "error" THEN Append(reg, order) ELSE reg

\* the registry after an execution attempt ended with `outcome`: the code
\* has no re-queue
AfterOutcome(reg, order, outcome) == reg

\* the severity notified for an outcome of place_order ("none": only printed)
Severity(outcome) ==
    CASE outcome = "ok" -> "information" [] outcome = "error" -> "error"
      [] OTHER -> "none"

PlaceOutcomes == {"ok", "error", "raise"}

\* Each `with self.lock:` block whose body only reads or writes memory is one
\* step, taken when the lock is free (the block is atomic for every other
\* user of the lock); the lock is a held value only where the code blocks
\* inside the block.  A step that only reads or writes a thread's own locals
\* is joined to the step before it.  The polling threads differ in nothing
\* but their frames, so the live ones are a bag of frames.

\* a block that is entered whoever holds the lock
AcquiredAlways(l) == TRUE

\* `with self.lock:` is entered: the lock was free
Acquired(l) == l = "free"

IdleFrame == [pc |-> "loop", locked |-> FALSE, snap |-> << >>, prices |-> << >>,
              todo |-> << >>]
IdleUi    == [pc |-> "idle", op |-> "none"]
NoExec    == [outcome |-> "none", severity |-> "none", msg_is_fill |-> TRUE,
              fill_triggers |-> TRUE]

OrderIds == 1..MaxOrders

MonitorInit ==
    /\ running = FALSE
    /\ orders = << >>
    /\ lock = "free"
    /\ loops = EmptyBag
    /\ ui = IdleUi
    /\ nextId = 0
    /\ placed = [id \in OrderIds |-> 0]
    /\ attempted = {}
    /\ lastExec = NoExec
    /\ ioLocked = FALSE
    /\ raised = FALSE
    /\ regime = "any"

\* ---- the public methods, run by the calling thread

\* start() is called
StartCall ==
    /\ ui.pc = "idle"
    /\ ui' = [pc |-> "start"]
    /\ UNCHANGED <<running, orders, lock, loops, nextId, placed, attempted,
                   lastExec, ioLocked, raised>>
    /\ UNCHANGED offMonitor

\* a start() that does not look at the flag
AlreadyRunningNever(flag) == FALSE

\* if self.running: return
AlreadyRunning(flag) == flag

\* start(): the flag test, the flag, the new thread
Start ==
    /\ ui.pc = "start"
    /\ IF AlreadyRunning(running)
       THEN UNCHANGED <<running, loops>>
       ELSE /\ BagCardinality(loops) < MaxThreads
            /\ running' = TRUE
            /\ loops' = loops (+) SetToBag({IdleFrame})
    /\ ui' = [pc |-> "idle", op |-> "start", was_running |-> running]
    /\ UNCHANGED <<orders, lock, nextId, placed, attempted, lastExec, ioLocked,
                   raised>>
    /\ UNCHANGED offMonitor

\* a stop() that cancels what is pending
AfterStopCleared(reg) == << >>

\* the registry after stop(): the method does not touch it
AfterStop(reg) == reg

\* stop(): self.running = False, then the join
Stop ==
    /\ ui.pc = "idle"
    /\ running' = FALSE
    /\ orders' = AfterStop(orders)
    /\ ui' = [pc |-> "stop_join"]
    /\ UNCHANGED <<lock, loops, nextId, placed, attempted, lastExec,
                   ioLocked, raised>>
    /\ UNCHANGED offMonitor

\* a join without a timeout
JoinReturnsUnbounded(alive, timed_out) == ~alive

\* monitor_thread.join(timeout=2) returns when the thread has ended or the
\* timeout has elapsed
JoinReturns(alive, timed_out) == ~alive \/ timed_out

\* stop() returns from its join
StopJoin ==
    /\ ui.pc = "stop_join"
    /\ \E timed_out \in BOOLEAN : JoinReturns(loops # EmptyBag, timed_out)
    /\ ui' = [pc |-> "idle", op |-> "stop"]
    /\ UNCHANGED <<running, orders, lock, loops, nextId, placed, attempted,
                   lastExec, ioLocked, raised>>
    /\ UNCHANGED offMonitor

\* add_limit_order is called
AddCall ==
    /\ ui.pc = "idle"
    /\ \E side \in AddSides : ui' = [pc |-> "add", side |-> side]
    /\ UNCHANGED <<running, orders, lock, loops, nextId, placed, attempted,
                   lastExec, ioLocked, raised>>
    /\ UNCHANGED offMonitor

\* add_limit_order up to its lock: the side test, the price fetch, the order
AddPrepare ==
    /\ ui.pc = "add"
    /\ IF ~SideAccepted(ui.side)
       THEN /\ ui' = [pc |-> "idle", op |-> "add_limit_order", ret |-> NoId]
            /\ UNCHANGED <<nextId, ioLocked>>
       ELSE /\ nextId < MaxOrders
            /\ \E uic \in MonUics, limit_price \in LimitPrices, amount \in MonAmounts,
                  current_price \in MonPrices \cup {NoQuote} :
                ui' = [pc |-> "add_insert",
                       current_price |-> current_price,
                       order |-> [trigger_price |-> limit_price,
                                  order_id |-> nextId + 1,
                                  side |-> "Buy",
                                  uic |-> uic,
                                  amount |-> amount,
                                  trigger_condition |->
                                      TriggerCondition(limit_price, current_price)]]
            /\ nextId' = nextId + 1
            /\ ioLocked' = (ioLocked \/ lock = "caller")
    /\ UNCHANGED <<running, orders, lock, loops, placed, attempted, lastExec,
                   raised>>
    /\ UNCHANGED offMonitor

\* with self.lock: self.orders[order_id] = order; the id is returned
AddInsert ==
    /\ ui.pc = "add_insert"
    /\ Acquired(lock)
    /\ orders' = Append(orders, ui.order)
    /\ ui' = [pc |-> "idle", op |-> "add_limit_order", ret |-> ui.order.order_id,
              current_price |-> ui.current_price]
    /\ UNCHANGED <<running, lock, loops, nextId, placed, attempted, lastExec,
                   ioLocked, raised>>
    /\ UNCHANGED offMonitor

\* get_pending_orders is called
ListCall ==
    /\ ui.pc = "idle"
    /\ ui' = [pc |-> "list"]
    /\ UNCHANGED <<running, orders, lock, loops, nextId, placed, attempted,
                   lastExec, ioLocked, raised>>
    /\ UNCHANGED offMonitor

\* with self.lock: return list(self.orders.values())
GetPendingOrders ==
    /\ ui.pc = "list"
    /\ Acquired(lock)
    /\ ui' = [pc |-> "idle", op |-> "get_pending_orders", ret |-> orders]
    /\ UNCHANGED <<running, orders, lock, loops, nextId, placed, attempted,
                   lastExec, ioLocked, raised>>
    /\ UNCHANGED offMonitor

\* ---- _monitor_loop, run by the thread whose frame is f

Live == BagToSet(loops)

\* the bag with frame f replaced by frame g
Moved(f, g) == (loops (-) SetToBag({f})) (+) SetToBag({g})

uics_to_monitor(snap) == {snap[k].uic : k \in 1..Len(snap)}

\* a loop that fetches inside its snapshot block
FetchFrameLocked(snap) ==
    [pc |-> "fetch", locked |-> TRUE, snap |-> snap, prices |-> << >>,
     todo |-> << >>]

\* the frame in which the loop leaves its snapshot block for the price fetch
FetchFrame(snap) == [IdleFrame EXCEPT !.pc = "fetch", !.snap = snap]

\* while self.running: with self.lock: an empty registry sleeps there, lock
\* held; otherwise the snapshot is taken and the lock released
LoopSnapshot(f) ==
    /\ f.pc = "loop"
    /\ IF ~running
       THEN /\ loops' = loops (-) SetToBag({f})
            /\ raised' = FALSE
            /\ UNCHANGED lock
       ELSE /\ Acquired(lock)
            /\ IF orders = << >>
               THEN /\ loops' = Moved(f, [f EXCEPT !.pc = "sleep_locked",
                                                   !.locked = TRUE])
                    /\ lock' = "loop"
               ELSE /\ loops' = Moved(f, FetchFrame(orders))
                    /\ lock' = IF FetchFrame(orders).locked THEN "loop" ELSE "free"
            /\ UNCHANGED raised
    /\ UNCHANGED <<running, orders, ui, nextId, placed, attempted, lastExec,
                   ioLocked>>
    /\ UNCHANGED offMonitor

\* time.sleep(1) ends; continue leaves the with block
LoopSleepLocked(f) ==
    /\ f.pc = "sleep_locked"
    /\ loops' = Moved(f, IdleFrame)
    /\ lock' = "free"
    /\ UNCHANGED <<running, orders, ui, nextId, placed, attempted, lastExec,
                   ioLocked, raised>>
    /\ UNCHANGED offMonitor

\* the price maps a fetch for `uics` may build: a mid for any of them
PriceMaps(uics) == UNION {[S -> MonPrices] : S \in SUBSET uics}

\* a loop whose thread dies of an error in a cycle
RaisedInFatal(f) == loops (-) SetToBag({f})

\* the loops after the cycle of f raised: except Exception prints, the cycle
\* ends in its sleep and the while test is next
RaisedIn(f) == Moved(f, [IdleFrame EXCEPT !.locked = f.locked])

\* a price map that holds, for every order of the snapshot, a quote that
\* satisfies the order's condition
Settled(snap, price_map) ==
    \A k \in 1..Len(snap) :
        /\ snap[k].uic \in DOMAIN price_map
        /\ snap[k].trigger_condition = "le"
              => price_map[snap[k].uic] <= snap[k].trigger_price
        /\ snap[k].trigger_condition = "ge"
              => price_map[snap[k].uic] >= snap[k].trigger_price

\* self.bot.get_fx_prices_unified(...): the fetch (or the building of the
\* price map) raises; or it returns no 'Data' and the cycle ends in its sleep;
\* or the price map is built
LoopFetch(f) ==
    /\ f.pc = "fetch"
    /\ \/ /\ regime = "any"
          /\ loops' = RaisedIn(f)
          /\ raised' = TRUE
       \/ /\ regime = "any"
          /\ loops' = Moved(f, [IdleFrame EXCEPT !.locked = f.locked])
          /\ raised' = FALSE
       \/ /\ \E price_map \in PriceMaps(uics_to_monitor(f.snap)) :
                /\ regime = "good" => Settled(f.snap, price_map)
                /\ loops' = Moved(f, [f EXCEPT !.pc = "check", !.prices = price_map])
          /\ raised' = FALSE
    /\ ioLocked' = (ioLocked \/ f.locked)
    /\ UNCHANGED <<running, orders, lock, ui, nextId, placed, attempted, lastExec>>
    /\ UNCHANGED offMonitor

RECURSIVE ToExecute(_, _)
\* _check_triggers: the _execute_order calls its for loop makes, in order,
\* each with the order and the price passed
ToExecute(snap, price_map) ==
    IF snap = << >> THEN << >>
    ELSE LET order == Head(snap) IN
         IF HasPrice(price_map, order.uic) /\ Triggered(order, price_map[order.uic])
         THEN <<[order |-> order, current_price |-> price_map[order.uic]]>>
                  \o ToExecute(Tail(snap), price_map)
         ELSE ToExecute(Tail(snap), price_map)

\* the frame with the calls `todo` left to make in this cycle; with none left
\* the cycle ends (its sleep, outside the lock, has no effect)
Continue(f, todo) ==
    IF todo = << >> THEN [IdleFrame EXCEPT !.locked = f.locked]
    ELSE [IdleFrame EXCEPT !.pc = "exec", !.todo = todo, !.locked = f.locked]

\* _check_triggers evaluates the snapshot.  The tests read only the snapshot
\* and the price map, which nothing changes, so they are made at once
LoopCheck(f) ==
    /\ f.pc = "check"
    /\ loops' = Moved(f, Continue(f, ToExecute(f.snap, f.prices)))
    /\ UNCHANGED <<running, orders, lock, ui, nextId, placed, attempted, lastExec,
                   ioLocked, raised>>
    /\ UNCHANGED offMonitor

\* _execute_order's block under the lock: delete the order, or return
ExecRemove(f) ==
    /\ f.pc = "exec"
    /\ Acquired(lock)
    /\ LET id == Head(f.todo).order.order_id IN
       IF StillPending(orders, id)
       THEN /\ orders' = AfterAttempt(orders, id)
            /\ attempted' = attempted \cup {id}
            /\ loops' = Moved(f, [f EXCEPT !.pc = "place"])
       ELSE /\ loops' = Moved(f, Continue(f, Tail(f.todo)))
            /\ UNCHANGED <<orders, attempted>>
    /\ UNCHANGED <<running, lock, ui, nextId, placed, lastExec, ioLocked, raised>>
    /\ UNCHANGED offMonitor

\* the price in the message "FILLED: ... at {current_price:.4f}": the one
\* _check_triggers passed, not the one place_order traded at
MessagePrice(current_price, fill_price) == current_price

\* self.bot.data_source.place_order(...) and what follows it.  place_order
\* fetches its own price (fill_price) when it is called.
ExecPlace(f) ==
    /\ f.pc = "place"
    /\ LET order == Head(f.todo).order IN
       \E outcome \in PlaceOutcomes :
       \E fill_price \in (IF outcome = "ok" THEN MonPrices ELSE {NoQuote}) :
        /\ placed' = [placed EXCEPT ![order.order_id] = @ + 1]
        /\ lastExec' = [outcome |-> outcome, severity |-> Severity(outcome),
                        msg_is_fill |->
                            (outcome = "ok" =>
                                MessagePrice(Head(f.todo).current_price, fill_price)
                                    = fill_price),
                        fill_triggers |->
                            (outcome = "ok" => Triggered(order, fill_price))]
        /\ orders' = AfterOutcome(orders, order, outcome)
    /\ loops' = Moved(f, Continue(f, Tail(f.todo)))
    /\ ioLocked' = (ioLocked \/ f.locked)
    /\ UNCHANGED <<running, lock, ui, nextId, attempted, raised>>
    /\ UNCHANGED offMonitor

-----------------------------------------------------------------------------
(* The specifications.                                                     *)

Init ==
    /\ LedgerInit /\ QuoteInit /\ ConvInit /\ SaxoInit
    /\ HistoryInit /\ SignalInit /\ MonitorInit
    /\ SubmitInit /\ IngestInit

\* the order monitor and its callers
Next ==
    \/ StartCall
    \/ Start
    \/ Stop
    \/ StopJoin
    \/ AddCall
    \/ AddPrepare
    \/ AddInsert
    \/ ListCall
    \/ GetPendingOrders
    \/ \E f \in Live : LoopSnapshot(f)
    \/ \E f \in Live : LoopSleepLocked(f)
    \/ \E f \in Live : LoopFetch(f)
    \/ \E f \in Live : LoopCheck(f)
    \/ \E f \in Live : ExecRemove(f)
    \/ \E f \in Live : ExecPlace(f)

Spec == Init /\ [][Next]_vars

\* the Quote Feed settles: from here on every fetch of a loop returns quotes
\* that satisfy the conditions of the orders it was made for
FeedSettles ==
    /\ regime = "any"
    /\ regime' = "good"
    /\ UNCHANGED offFeed

\* a step of a polling loop
LoopStep ==
    \/ \E f \in Live : LoopSnapshot(f)
    \/ \E f \in Live : LoopSleepLocked(f)
    \/ \E f \in Live : LoopFetch(f)
    \/ \E f \in Live : LoopCheck(f)
    \/ \E f \in Live : ExecRemove(f)
    \/ \E f \in Live : ExecPlace(f)

\* the order monitor once started and never stopped, its callers, and a feed
\* that settles; the polling thread is scheduled fairly
LiveNext ==
    \/ StartCall
    \/ Start
    \/ AddCall
    \/ AddPrepare
    \/ AddInsert
    \/ ListCall
    \/ GetPendingOrders
    \/ FeedSettles
    \/ LoopStep

LiveSpec == Init /\ [][LiveNext]_vars /\ WF_vars(LoopStep)

\* the simulated ledger, one caller
LedgerNext ==
    \/ LedgerPlaceOrder
    \/ LedgerGetBalance
    \/ LedgerGetPositions
    \/ LedgerGetPrices
    \/ LedgerGetOrders
    \/ LedgerCancelOrder
LedgerSpec == Init /\ [][LedgerNext]_vars

\* the price history, one writer
HistoryNext == HistoryAdd \/ HistoryStats
HistorySpec == Init /\ [][HistoryNext]_vars

\* the simulated ledger, two threads inside place_order
SubmitNext ==
    \/ \E t \in Submitters : SubmitEnter(t)
    \/ \E t \in Submitters : SubmitBranch(t)
    \/ \E t \in Submitters : SubmitLoad(t)
    \/ \E t \in Submitters : SubmitStore(t)
    \/ \E t \in Submitters : SubmitBook(t)
SubmitSpec == Init /\ [][SubmitNext]_vars

\* the price history, its writer and a concurrent reader
IngestNext == IngestConcat \/ IngestCap \/ IngestRead
IngestSpec == Init /\ [][IngestNext]_vars

\* the simulated ledger's quotes
QuoteNext == QuoteGetPrices
QuoteSpec == Init /\ [][QuoteNext]_vars

\* the conversion to the account currency
ConvNext == ConvCall
ConvSpec == Init /\ [][ConvNext]_vars

\* the live broker source's balance
SaxoNext == SaxoGetBalance
SaxoSpec == Init /\ [][SaxoNext]_vars

\* the signal generator
SignalNext == SignalCall
SignalSpec == Init /\ [][SignalNext]_vars

-----------------------------------------------------------------------------
(* OrderMonitor: execution of pending orders.                              *)

\* C1: for every order id, the polling loops call place_order at most once,
\* however many cycles hold the order in their snapshots.
C1_PlacedAtMostOnce == \A id \in OrderIds : placed[id] <= 1

\* An order was placed by one cycle while another cycle, which took the same
\* order in its snapshot and saw it triggered, is about to execute it.
C1_Witness ==
    \E f \in Live :
        /\ f.pc = "exec"
        /\ placed[Head(f.todo).order.order_id] = 1

\* C2: once an execution attempt for an order has begun, the order is not in
\* the registry and no later get_pending_orders call returns it, however
\* place_order ended.
C2_NeverPendingAgain ==
    /\ [](\A id \in attempted : id \notin Ids(orders))
    /\ [][(ui.pc = "list" /\ ui'.pc = "idle")
            => \A id \in attempted : id \notin Ids(ui'.ret)]_vars

\* get_pending_orders returned after an attempt whose place_order raised.
C2_Witness ==
    /\ ui.pc = "idle" /\ ui.op = "get_pending_orders"
    /\ attempted # {}
    /\ lastExec.outcome = "raise"
    /\ \A id \in attempted : placed[id] = 1 /\ id \notin Ids(ui.ret)

\* C6: the condition stored for a buy is 'le' when no current price was
\* fetched, 'ge' when the limit is strictly above the current price, and 'le'
\* otherwise (the limit equal to the current price included).
C6_TriggerCondition ==
    (ui.pc = "idle" /\ ui.op = "add_limit_order" /\ ui.ret # NoId) =>
        \A k \in 1..Len(orders) :
            orders[k].order_id = ui.ret =>
                orders[k].trigger_condition =
                    (IF ui.current_price = NoQuote THEN "le"
                     ELSE IF orders[k].trigger_price > ui.current_price THEN "ge"
                     ELSE "le")

\* An order was just stored with the limit equal to the current price.
C6_Witness ==
    /\ ui.pc = "idle" /\ ui.op = "add_limit_order" /\ ui.ret # NoId
    /\ \E k \in 1..Len(orders) :
        /\ orders[k].order_id = ui.ret
        /\ orders[k].trigger_price = ui.current_price
        /\ orders[k].trigger_condition = "le"

\* C7: add_limit_order with a side that is not 'buy' in any letter case
\* returns no id and leaves the registry as it was.
C7_OtherSidesRejected ==
    [][(ui.pc = "add" /\ ui' # ui /\ ui.side \notin {"buy", "Buy", "BUY"})
        => (ui'.pc = "idle" /\ ui'.ret = NoId /\ orders' = orders
            /\ nextId' = nextId)]_vars

\* A call was rejected while the registry held an order.
C7_Witness ==
    /\ ui.pc = "idle" /\ ui.op = "add_limit_order" /\ ui.ret = NoId
    /\ orders # << >>

\* the orders of a snapshot that a price map triggers, as C8 states it
C8_Fires(order, price_map) ==
    /\ order.uic \in DOMAIN price_map
    /\ \/ order.trigger_condition = "le"
          /\ price_map[order.uic] <= order.trigger_price
       \/ order.trigger_condition = "ge"
          /\ price_map[order.uic] >= order.trigger_price

C8_Expected(snap, price_map) ==
    LET Fires(order) == C8_Fires(order, price_map) IN SelectSeq(snap, Fires)

\* C8: a cycle calls _execute_order for exactly the orders of its snapshot
\* whose instrument has a price in the cycle's map that satisfies the stored
\* condition, with that price; the evaluation leaves the registry as it is.
C8_TriggerEvaluation ==
    [][\A f \in BagToSet(loops) :
        (f.pc = "check" /\ CopiesIn(f, loops') < CopiesIn(f, loops)) =>
            /\ orders' = orders
            /\ \E g \in BagToSet(loops') :
                /\ loops' = Moved(f, g)
                /\ LET want == C8_Expected(f.snap, f.prices) IN
                   /\ Len(g.todo) = Len(want)
                   /\ \A k \in 1..Len(want) :
                        /\ g.todo[k].order = want[k]
                        /\ g.todo[k].current_price = f.prices[want[k].uic]
                   /\ g.pc = (IF want = << >> THEN "loop" ELSE "exec")]_vars

\* A cycle is about to execute a 'ge' order at a price equal to its trigger.
C8_Witness ==
    \E f \in Live :
        /\ f.pc = "exec"
        /\ Head(f.todo).order.trigger_condition = "ge"
        /\ Head(f.todo).current_price = Head(f.todo).order.trigger_price

\* C9: no thread fetches prices or calls place_order while it holds the
\* registry lock.
C9_NoIoUnderLock ==
    /\ ~ioLocked
    /\ \A f \in Live : f.pc \in {"fetch", "place"} => ~f.locked
    /\ ui.pc = "add" => lock # "caller"

\* A loop is in place_order while another loop holds the lock.
C9_Witness ==
    /\ lock = "loop"
    /\ \E f \in Live : f.pc = "place" /\ ~f.locked

\* C13: an error raised in a polling cycle does not end the loop: the thread
\* is back at its while test, and a loop ends only after it has read the
\* running flag as cleared.
C13_ErrorsDoNotEndTheLoop ==
    [][/\ BagCardinality(loops') < BagCardinality(loops) => ~running
       /\ (raised' /\ ~raised) =>
            /\ BagCardinality(loops') = BagCardinality(loops)
            /\ \E f \in BagToSet(loops), g \in BagToSet(loops') :
                 /\ f.pc = "fetch" /\ g.pc = "loop"
                 /\ loops' = Moved(f, g)]_vars

\* The only live loop is fetching again after a cycle of its own raised.
C13_Witness ==
    /\ raised /\ running
    /\ BagCardinality(loops) = 1
    /\ \E f \in Live : f.pc = "fetch"

\* C14: start() called while the running flag is set creates no polling loop
\* and changes nothing of the monitor.
C14_StartIsIdempotent ==
    [][(ui.pc = "start" /\ ui'.pc = "idle" /\ running) =>
        /\ loops' = loops
        /\ UNCHANGED <<running, orders, lock, nextId, placed, attempted, lastExec,
                       ioLocked, raised>>]_vars

\* start() returned from a call made while a loop was running.
C14_Witness ==
    /\ ui.pc = "idle" /\ ui.op = "start" /\ ui.was_running
    /\ running
    /\ BagCardinality(loops) = 1

\* C15: stop() clears the running flag, and its join can always return,
\* whatever the polling loops are doing.
C15_StopReturns ==
    ui.pc = "stop_join" => (~running /\ ENABLED StopJoin)

\* stop() has returned while a loop is still inside its price fetch.
C15_Witness ==
    /\ ui.pc = "idle" /\ ui.op = "stop"
    /\ ~running
    /\ \E f \in Live : f.pc = "fetch"

\* C21: every execution attempt notifies the UI: severity 'error' when
\* place_order returned an error or raised, 'information' when it succeeded.
\* (The claim as stated; an attempt whose place_order raises refutes it.)
C21_EveryAttemptNotified ==
    lastExec.outcome # "none" =>
        lastExec.severity =
            (IF lastExec.outcome = "ok" THEN "information" ELSE "error")

\* C22: whenever a loop is about to call place_order for an order, the order
\* is no longer in the registry; and an execution request for an order that
\* is absent from the registry makes no place_order call.
C22_RemovedBeforePlaced ==
    /\ [](\A f \in Live :
            f.pc = "place" => Head(f.todo).order.order_id \notin Ids(orders))
    /\ [][\A f \in BagToSet(loops) :
            (/\ f.pc = "exec"
             /\ Head(f.todo).order.order_id \notin Ids(orders)
             /\ CopiesIn(f, loops') < CopiesIn(f, loops))
            => /\ placed' = placed
               /\ orders' = orders
               /\ \E g \in BagToSet(loops') :
                    /\ loops' = Moved(f, g)
                    /\ g.pc # "place"
                    /\ g.todo = Tail(f.todo)]_vars

\* One loop is inside place_order for an order that a second loop, which
\* holds it in its snapshot, is about to request: the request finds it absent.
C22_Witness ==
    \E f \in Live, g \in Live :
        /\ f.pc = "place" /\ g.pc = "exec"
        /\ Head(g.todo).order.order_id = Head(f.todo).order.order_id
        /\ Head(g.todo).order.order_id \notin Ids(orders)

\* the polling loops that are inside a block under the lock
C23_Holders ==
    BagCardinality([f \in {g \in Live : g.locked} |-> CopiesIn(f, loops)])

\* C23: every read and every write of the registry (the insert, the listing,
\* the loop's emptiness test and snapshot, the membership test and delete of
\* an execution) is made by a thread that has taken the lock, and at most one
\* thread is inside a block under the lock at a time.
C23_RegistryUnderLock ==
    /\ [](/\ C23_Holders <= 1
          /\ (lock = "loop" <=> C23_Holders = 1)
          /\ lock \in {"free", "loop"})
    /\ [][/\ orders' # orders => lock = "free"
          /\ (ui.pc \in {"add_insert", "list"} /\ ui'.pc = "idle") => lock = "free"
          /\ \A f \in BagToSet(loops) :
               (/\ f.pc \in {"loop", "exec"} /\ (f.pc = "loop" => running)
                /\ CopiesIn(f, loops') < CopiesIn(f, loops))
               => lock = "free"]_vars

\* A loop sleeps inside its block, holding the lock, while the caller's
\* insert and a second loop's emptiness test wait for it.
C23_Witness ==
    /\ lock = "loop" /\ running
    /\ ui.pc = "add_insert"
    /\ \E f \in Live, g \in Live :
        /\ f.pc = "sleep_locked" /\ f.locked
        /\ g.pc = "loop"

\* C24: an order leaves the registry only in the step in which a loop begins
\* an execution attempt for it; the steps of start() and stop() leave the
\* registry as it is.
C24_LeavesOnlyByExecution ==
    [][/\ \A id \in Ids(orders) \ Ids(orders') :
            \E f \in BagToSet(loops) :
                /\ f.pc = "exec"
                /\ Head(f.todo).order.order_id = id
                /\ loops' = Moved(f, [f EXCEPT !.pc = "place"])
       /\ (ui' # ui /\ (ui.pc \in {"start", "stop_join"} \/ ui'.pc = "stop_join"))
            => orders' = orders]_vars

\* stop() has returned and no loop is alive: the order is still pending.
C24_Witness ==
    /\ ui.pc = "idle" /\ ui.op = "stop"
    /\ ~running /\ loops = EmptyBag
    /\ orders # << >>
    /\ attempted = {}

\* C25: the price in the fill notification of an executed order equals the
\* price at which place_order executed it.
\* (The claim as stated; a quote that moves between the cycle's fetch and the
\* placement refutes it.)
C25_FillPriceReported ==
    lastExec.outcome = "ok" => lastExec.msg_is_fill

\* C32: after any sequence of start() and stop() calls at most one polling
\* loop is alive.
\* (The claim as stated; a stop() that times out on a loop stalled in its
\* fetch, followed by a start(), refutes it.)
C32_AtMostOneLoop == BagCardinality(loops) <= 1

\* C33: the loop holds the lock only while it takes its snapshot: no loop
\* sleeps while it holds the lock, so no caller waits at the lock for the
\* length of a sleep.
\* (The claim as stated; a loop that finds the registry empty refutes it.)
C33_NoSleepUnderLock ==
    \A f \in Live : f.pc = "sleep_locked" => (~f.locked /\ lock # "loop")

\* C34: an order executed by a loop is filled at a price that satisfies its
\* trigger: at most the trigger price for 'le', at least for 'ge'.
\* (The claim as stated; a quote that moves between the cycle's fetch and the
\* ledger's own lookup refutes it.)
C34_FilledWithinTrigger ==
    lastExec.outcome = "ok" => lastExec.fill_triggers

\* C35: while the monitor is running, once every fetch returns quotes that
\* satisfy a pending order's condition, an execution attempt for the order
\* eventually begins, the polling thread being scheduled fairly.
C35_EventuallyAttempted ==
    \A id \in OrderIds :
        (regime = "good" /\ running /\ id \in Ids(orders)) ~> (id \in attempted)

\* With the feed settled, a loop has begun the attempt for the order and is
\* about to place it.
C35_Witness ==
    /\ regime = "good" /\ running
    /\ \E f \in Live :
        /\ f.pc = "place"
        /\ Head(f.todo).order.order_id \in attempted
        /\ Head(f.todo).order.order_id \notin Ids(orders)

-----------------------------------------------------------------------------
(* YahooFinanceDataSource.place_order.                                     *)

Called == last.op = "place_order"

\* the converted value of `amount` units in the last call
LastValue(amount) ==
    ConvertValueToUsd(RMul(R(amount), last.price), last.uic, last.price, last.aux)

\* C3: a buy whose converted value exceeds the cash fails with
\* InsufficientFunds and leaves the cash and the positions as they were.
C3_InsufficientFunds ==
    (/\ Called /\ last.side = "Buy" /\ last.uic \in DOMAIN UIC_TO_TICKER
     /\ RGt(LastValue(last.amount), last.cash0))
    => /\ last.result = "InsufficientFunds"
       /\ balance = last.cash0
       /\ positions = last.pos0

\* A buy was refused while a position was open.
C3_Witness ==
    /\ Called /\ last.result = "InsufficientFunds"
    /\ positions # << >>

\* C4: a sell of more than is held sells the held amount: the proceeds of
\* the held amount are credited and the position is deleted; and no stored
\* position has a negative amount.
C4_SellClamped ==
    /\ (/\ Called /\ last.side = "Sell" /\ last.uic \in DOMAIN last.pos0
        /\ last.amount > last.pos0[last.uic].amount)
       => /\ last.result = "Filled"
          /\ balance = RAdd(last.cash0, LastValue(last.pos0[last.uic].amount))
          /\ last.uic \notin DOMAIN positions
          /\ \A u \in DOMAIN positions : positions[u] = last.pos0[u]
    /\ \A u \in DOMAIN positions : positions[u].amount >= 0

\* More than the (positive) held amount was sold.
C4_Witness ==
    /\ Called /\ last.side = "Sell" /\ last.uic \in DOMAIN last.pos0
    /\ last.pos0[last.uic].amount > 0
    /\ last.amount > last.pos0[last.uic].amount
    /\ RGt(balance, last.cash0)

\* C5: a filled buy of amount a at price p debits the converted value of a*p
\* and creates the position (a, p), or adds a to the held amount and makes the
\* average price (old_amount*old_avg + a*p) / (old_amount + a); the ledger
\* starts with 1,000,000, and from there 100,000 EUR/USD at 1.10 leaves
\* 890,000, and 100,000 more at 1.20 gives 200,000 at 1.15.
C5_BuyAccounting ==
    /\ (nops = 0 => balance = R(1000000) /\ positions = << >>)
    /\ (Called /\ last.side = "Buy" /\ last.result = "Filled") =>
        /\ balance = RSub(last.cash0, LastValue(last.amount))
        /\ last.uic \in DOMAIN positions
        /\ IF last.uic \in DOMAIN last.pos0
           THEN LET old == last.pos0[last.uic]
                    new == positions[last.uic]
                IN  /\ new.amount = old.amount + last.amount
                    /\ RMul(new.open_price, R(new.amount)) =
                         RAdd(RMul(R(old.amount), old.open_price),
                              RMul(R(last.amount), last.price))
           ELSE /\ positions[last.uic].amount = last.amount
                /\ positions[last.uic].open_price = last.price
        /\ (/\ last.cash0 = R(1000000) /\ last.uic = 21 /\ last.amount = 100000
            /\ last.price = Frac(110, 100))
           => balance = R(890000)
        /\ (/\ last.uic = 21 /\ last.amount = 100000 /\ last.price = Frac(120, 100)
            /\ last.uic \in DOMAIN last.pos0
            /\ last.pos0[21].amount = 100000
            /\ last.pos0[21].open_price = Frac(110, 100))
           => /\ positions[21].open_price = Frac(115, 100)
              /\ positions[21].amount = 200000

\* The two buys of the example were made from the initial state.
C5_Witness ==
    /\ Called /\ last.side = "Buy" /\ last.result = "Filled" /\ nops = 2
    /\ last.uic = 21 /\ last.amount = 100000 /\ last.price = Frac(120, 100)
    /\ last.cash0 = R(890000)
    /\ 21 \in DOMAIN last.pos0 /\ 21 \in DOMAIN positions
    /\ last.pos0[21].open_price = Frac(110, 100)
    /\ positions[21].amount = 200000
    /\ positions[21].open_price = Frac(115, 100)

\* C16: a sell for an instrument with no position fails with NoPosition and
\* leaves the cash and the positions as they were.
C16_SellWithoutPosition ==
    (/\ Called /\ last.side = "Sell" /\ last.uic \in DOMAIN UIC_TO_TICKER
     /\ last.uic \notin DOMAIN last.pos0)
    => /\ last.result = "NoPosition"
       /\ balance = last.cash0
       /\ positions = last.pos0

\* A sell was refused for one instrument while another was held.
C16_Witness ==
    /\ Called /\ last.side = "Sell" /\ last.result = "NoPosition"
    /\ last.amount > 0
    /\ positions # << >>
    /\ balance = last.cash0 /\ positions = last.pos0

\* C29: place_order for an instrument id the ledger does not know fails with
\* NoPriceAvailable, for a buy and for a sell, and leaves the cash and the
\* positions as they were.
C29_NoPriceAvailable ==
    (Called /\ last.uic \notin {16, 21, 31, 22, 17}) =>
        /\ last.result = "NoPrice"
        /\ balance = last.cash0
        /\ positions = last.pos0

\* A buy for an unknown instrument was refused while a position was open and
\* the cash would have covered any price.
C29_Witness ==
    /\ Called /\ last.uic = 99 /\ last.side = "Buy" /\ last.amount > 0
    /\ last.result = "NoPrice"
    /\ positions # << >> /\ positions = last.pos0
    /\ RGt(balance, R(0)) /\ balance = last.cash0

\* C30: get_balance, get_positions, get_orders, get_prices and cancel_order
\* leave the cash and the position map as they were: only place_order changes
\* them.
C30_OnlyPlaceOrderMutates ==
    /\ [](last.op \in {"get_balance", "get_positions", "get_orders", "get_prices",
                       "cancel_order"}
            => balance = last.cash0 /\ positions = last.pos0)
    /\ [][(balance' # balance \/ positions' # positions)
            => last'.op = "place_order"]_vars

\* cancel_order returned on a ledger that holds a position bought before.
C30_Witness ==
    /\ last.op = "cancel_order"
    /\ positions # << >> /\ positions = last.pos0
    /\ RGt(InitialBalance, balance) /\ balance = last.cash0

\* the amount held in an instrument (0 without a position)
C36_Held(pos, uic) == IF uic \in DOMAIN pos THEN pos[uic].amount ELSE 0

\* C36: for a pair quoted against the account currency and a price p, a filled
\* place_order leaves cash + (amount held * p) as it was; and a buy of a
\* followed by a sell of a at the same price gives back the cash and removes
\* the position the buy made.
C36_ValueConserved ==
    /\ (Called /\ last.uic = 21 /\ last.result = "Filled") =>
          RAdd(balance, RMul(R(C36_Held(positions, 21)), last.price))
              = RAdd(last.cash0, RMul(R(C36_Held(last.pos0, 21)), last.price))
    /\ (/\ Called /\ nops = 2 /\ last.uic = 21 /\ last.side = "Sell"
        /\ last.result = "Filled"
        /\ DOMAIN last.pos0 = {21}
        /\ last.pos0[21].amount = last.amount
        /\ last.pos0[21].open_price = last.price)
       => /\ balance = InitialBalance
          /\ positions = << >>

\* 100,000 EUR/USD were bought at 1.10 on the opening ledger and sold at 1.10.
C36_Witness ==
    /\ Called /\ nops = 2 /\ last.uic = 21 /\ last.side = "Sell"
    /\ last.result = "Filled" /\ last.amount = 100000
    /\ last.price = Frac(11, 10)
    /\ DOMAIN last.pos0 = {21}
    /\ last.pos0[21].amount = 100000
    /\ last.pos0[21].open_price = Frac(11, 10)
    /\ last.cash0 = R(890000)
    /\ balance = R(1000000) /\ positions = << >>

\* C37: a sell of less than is held takes exactly the amount asked from the
\* position and leaves its open price and opening time as they were; a buy
\* or a sell leaves the positions of the other instruments as they were.
C37_PartialSell ==
    /\ (/\ Called /\ last.side = "Sell" /\ last.uic \in DOMAIN last.pos0
        /\ last.amount < last.pos0[last.uic].amount)
       => /\ last.result = "Filled"
          /\ last.uic \in DOMAIN positions
          /\ positions[last.uic].amount = last.pos0[last.uic].amount - last.amount
          /\ positions[last.uic].open_price = last.pos0[last.uic].open_price
          /\ positions[last.uic].opened_time = last.pos0[last.uic].opened_time
    /\ Called =>
          /\ DOMAIN positions \ {last.uic} = DOMAIN last.pos0 \ {last.uic}
          /\ \A u \in DOMAIN positions \ {last.uic} : positions[u] = last.pos0[u]

\* 100,000 of 1,000,000 held were sold at a price other than the open price,
\* with a position in another instrument open.
C37_Witness ==
    /\ Called /\ last.side = "Sell" /\ last.uic \in DOMAIN last.pos0
    /\ last.amount = 100000
    /\ last.pos0[last.uic].amount = 1000000
    /\ last.uic \in DOMAIN positions
    /\ positions[last.uic].amount = 900000
    /\ last.price # positions[last.uic].open_price
    /\ DOMAIN positions # {last.uic}

C17_NoZeroPosition ==
    \A u \in DOMAIN positions : positions[u].amount # 0

-----------------------------------------------------------------------------
(* YahooFinanceDataSource: conversion and valuation.                       *)

\* the instruments whose conversion looks up a reference pair
C19_Crosses == {16, 17}

\* amount * price, unconverted
C19_Raw(amount, price) == RMul(R(amount), price)

RECURSIVE C19_Invested(_)
\* the invested value when a failed lookup leaves the value unconverted
C19_Invested(uics) ==
    IF uics = {} THEN R(0)
    ELSE LET u == CHOOSE x \in uics : TRUE
             p == last.pos0[u]
             q == last.quotes[u]
         IN  RAdd(IF u \in C19_Crosses /\ q.aux = NoPrice
                  THEN C19_Raw(p.amount, q.price)
                  ELSE MarketValUsd(last.pos0, last.quotes, u),
                  C19_Invested(uics \ {u}))

\* C19: when the reference-pair lookup of a conversion fails, the value is
\* used unconverted and the call completes: place_order fills (or refuses for
\* funds) on the unconverted value, get_balance sums it, get_positions reports
\* the unconverted profit.
C19_ConversionFailsSoft ==
    /\ (/\ Called /\ last.uic \in C19_Crosses /\ last.aux = NoPrice
        /\ last.amount > 0)
       => IF last.side = "Buy"
          THEN IF RGt(C19_Raw(last.amount, last.price), last.cash0)
               THEN last.result = "InsufficientFunds" /\ balance = last.cash0
               ELSE /\ last.result = "Filled"
                    /\ balance = RSub(last.cash0, C19_Raw(last.amount, last.price))
          ELSE IF last.uic \in DOMAIN last.pos0
               THEN LET held == last.pos0[last.uic].amount
                        sold == IF last.amount > held THEN held ELSE last.amount
                    IN  /\ last.result = "Filled"
                        /\ balance = RAdd(last.cash0, C19_Raw(sold, last.price))
               ELSE last.result = "NoPosition"
    /\ last.op = "get_balance" =>
          last.result.MarginUsedByCurrentPositions = C19_Invested(DOMAIN last.pos0)
    /\ last.op = "get_positions" =>
          \A u \in DOMAIN last.pos0 :
              (u \in C19_Crosses /\ last.quotes[u].aux_pnl = NoPrice) =>
                  last.result[u].ProfitLoss =
                      RMul(RSub(last.quotes[u].price, last.pos0[u].open_price),
                           R(last.pos0[u].amount))

\* get_balance returned with a cross held whose reference lookup failed.
C19_Witness ==
    /\ last.op = "get_balance"
    /\ \E u \in DOMAIN last.pos0 :
        /\ u \in C19_Crosses
        /\ last.pos0[u].amount > 0
        /\ last.quotes[u].aux = NoPrice
        /\ last.result.MarginUsedByCurrentPositions =
               C19_Raw(last.pos0[u].amount, last.quotes[u].price)

\* the conversion as C27 words it: every cross multiplies by the reference mid
C27_Claimed(value, uic, price, aux) ==
    CASE uic \in {21, 22} -> value
      [] uic = 31 -> IF price = R(0) THEN R(0) ELSE RDiv(value, price)
      [] uic \in {16, 17} -> RMul(value, aux)
      [] OTHER -> value

\* the conversion with the cross quoted in a third currency: EUR/GBP
\* multiplies by the GBP/USD mid; EUR/DKK multiplies by the EUR/USD mid and
\* divides by the pair's own price (the division failing on a price of 0,
\* the value stays as it is)
C27_Converted(value, uic, price, aux) ==
    CASE uic \in {21, 22} -> value
      [] uic = 31 -> IF price = R(0) THEN R(0) ELSE RDiv(value, price)
      [] uic = 17 -> RMul(value, aux)
      [] uic = 16 -> IF price = R(0) THEN value ELSE RDiv(RMul(value, aux), price)
      [] OTHER -> value

\* a conversion was made whose reference lookup, if it made one, gave a mid
C27_Made ==
    /\ conv.op = "convert"
    /\ conv.aux # NoPrice \/ conv.uic \notin {16, 17}

\* C27 (as stated): a direct pair and an unknown instrument return the value
\* unchanged, USD/JPY returns value / price (0 when the price is 0), and every
\* other cross returns value * the reference-pair mid.
C27_ConversionAsStated ==
    C27_Made =>
        conv.result = C27_Claimed(conv.value, conv.uic, conv.price, conv.aux)

\* C27 (amended): a direct pair and an unknown instrument return the value
\* unchanged; USD/JPY returns value / price, 0 when the price is 0; EUR/GBP
\* returns value * GBP/USD mid; EUR/DKK returns value * EUR/USD mid / price,
\* and the value unchanged when the price is 0.
C27_Conversion ==
    C27_Made =>
        conv.result = C27_Converted(conv.value, conv.uic, conv.price, conv.aux)

\* 7,450 DKK (1,000 EUR/DKK at 7.45) were converted with EUR/USD at 1.10:
\* 1,100 USD.
C27_Witness ==
    /\ C27_Made
    /\ conv.uic = 16 /\ conv.value = R(7450)
    /\ conv.price = Frac(745, 100) /\ conv.aux = Frac(11, 10)
    /\ conv.result = R(1100)

\* the positions reported whose fields are numbers
C28_Positions ==
    IF "Data" \in DOMAIN saxo.positions_data
    THEN LET Numeric(pos) == pos.Amount # Malformed
         IN  SelectSeq(saxo.positions_data.Data, Numeric)
    ELSE << >>

RECURSIVE C28_Notional(_)
\* the sum of |amount * price|, the price being the current price, or the
\* open price when the current price is 0
C28_Notional(ps) ==
    IF ps = << >> THEN 0
    ELSE LET a == Head(ps).Amount
             p == IF Head(ps).CurrentPrice = 0 THEN Head(ps).OpenPrice
                  ELSE Head(ps).CurrentPrice
         IN  (IF a * p < 0 THEN -(a * p) ELSE a * p) + C28_Notional(Tail(ps))

\* C28: the live source's get_balance overrides the broker's figures: invested
\* notional = sum over the positions of |amount * price| (current price, or
\* open price when the current price is 0); cash available and cash balance =
\* total_equity - invested; margin_pct = invested / total_equity * 100, or 0
\* when total_equity <= 0.
C28_LiveBalance ==
    saxo.op = "get_balance" =>
        LET r        == saxo.result
            equity   == saxo.balance_data.TotalValue
            invested == C28_Notional(C28_Positions)
        IN  /\ r.MarginUsedByCurrentPositions = invested
            /\ r.CashAvailableForTrading = equity - invested
            /\ r.CashBalance = equity - invested
            /\ r.TotalValue = equity
            /\ IF equity <= 0 THEN r.MarginUtilizationPct = R(0)
               ELSE RMul(r.MarginUtilizationPct, R(equity)) = R(100 * invested)

\* A short position with no current price and a long one: 1000 * 3 + 1000 * 2
\* invested of an equity of 5000, so no cash is left and the margin is 100%.
C28_Witness ==
    /\ saxo.op = "get_balance"
    /\ saxo.balance_data.TotalValue = 5000
    /\ "Data" \in DOMAIN saxo.positions_data
    /\ saxo.positions_data.Data =
         <<[Amount |-> -1000, CurrentPrice |-> 0, OpenPrice |-> 3],
           [Amount |-> 1000, CurrentPrice |-> 2, OpenPrice |-> 1]>>
    /\ saxo.result.MarginUsedByCurrentPositions = 5000
    /\ saxo.result.CashAvailableForTrading = 0
    /\ saxo.result.CashBalance = 0
    /\ saxo.result.MarginUtilizationPct = R(100)

RECURSIVE C20_Invested(_)
\* the sum over the positions of amount * mid, converted
C20_Invested(uics) ==
    IF uics = {} THEN R(0)
    ELSE LET u == CHOOSE x \in uics : TRUE
             q == last.quotes[u]
         IN  RAdd(ConvertValueToUsd(RMul(R(last.pos0[u].amount), q.price),
                                    u, q.price, q.aux),
                  C20_Invested(uics \ {u}))

\* C20: get_balance reports total_equity = cash + the sum over the positions
\* of amount * mid converted, margin_used = that sum, and margin_pct =
\* margin_used / total_equity * 100, or 0 when total_equity <= 0.
C20_Balance ==
    last.op = "get_balance" =>
        LET r        == last.result
            invested == C20_Invested(DOMAIN last.pos0)
        IN  /\ r.CashBalance = last.cash0
            /\ r.MarginUsedByCurrentPositions = invested
            /\ r.TotalValue = RAdd(last.cash0, invested)
            /\ IF RGt(r.TotalValue, R(0))
               THEN r.MarginUtilizationPct =
                        RDiv(RMul(invested, R(100)), r.TotalValue)
               ELSE r.MarginUtilizationPct = R(0)

\* get_balance returned with 100,000 EUR/USD held at a mid of 1.10 and cash
\* 890,000: equity 1,000,000, margin 110,000, utilisation 11 percent.
C20_Witness ==
    /\ last.op = "get_balance"
    /\ DOMAIN last.pos0 = {21}
    /\ last.pos0[21].amount = 100000
    /\ last.quotes[21].price = Frac(110, 100)
    /\ last.cash0 = R(890000)
    /\ last.result.TotalValue = R(1000000)
    /\ last.result.MarginUsedByCurrentPositions = R(110000)
    /\ last.result.MarginUtilizationPct = R(11)

-----------------------------------------------------------------------------
(* YahooFinanceDataSource.get_prices.                                      *)

\* the instruments of a request that the table holds, in the order asked
C18_Known(instruments) ==
    LET Knows(u) == u \in {16, 21, 31, 22, 17} IN SelectSeq(instruments, Knows)

\* C18: get_prices returns Data with one quote for every requested instrument
\* it knows, in the order asked, whatever the feed does; the mid is the
\* feed's last close when it gives one and the instrument's default otherwise.
C18_AlwaysAQuote ==
    quote.op = "get_prices" =>
        LET known == C18_Known(quote.instruments)
            data  == quote.result.Data
        IN  /\ Len(data) = Len(known)
            /\ \A k \in 1..Len(known) :
                 /\ data[k].Uic = known[k]
                 /\ data[k].Mid # NoPrice
            /\ \A k \in 1..Len(quote.instruments), j \in 1..Len(data) :
                 (/\ data[j].Uic = quote.instruments[k]
                  /\ \/ quote.feed[k].m1.kind = "raise"
                     \/ /\ quote.feed[k].m1.kind = "empty"
                        /\ quote.feed[k].m5.kind # "rows")
                 => data[j].Mid = Defaults(UIC_TO_TICKER[data[j].Uic])

\* The feed raised for one known instrument of a request and gave rows for
\* the other; the request also named an instrument the table does not hold.
C18_Witness ==
    /\ quote.op = "get_prices"
    /\ quote.instruments = <<99, 21, 22>>
    /\ quote.feed[2].m1.kind = "raise"
    /\ quote.feed[3].m1.kind = "rows"
    /\ Len(quote.result.Data) = 2
    /\ quote.result.Data[1].Mid = Frac(109, 100)
    /\ quote.result.Data[2].Mid = Frac(127, 100)

-----------------------------------------------------------------------------
(* FXDataHandler.add_price_data.                                           *)

C10_Min(a, b) == IF a < b THEN a ELSE b

\* C10: after n add_price_data calls for a symbol its sequence holds the
\* last min(n, 1000) rows given, in the order given.
C10_RollingWindow ==
    \A s \in Symbols :
        LET n == Len(fed[s])
            m == C10_Min(n, 1000)
        IN  IF n = 0 THEN s \notin DOMAIN price_history
            ELSE /\ s \in DOMAIN price_history
                 /\ Len(price_history[s]) = m
                 /\ \A k \in 1..m : price_history[s][k] = fed[s][n - m + k]

\* More than 1000 rows were given for a symbol: the oldest were evicted.
C10_Witness ==
    /\ Len(fed["EUR/USD"]) > 1001
    /\ Len(price_history["EUR/USD"]) = 1000
    /\ price_history["EUR/USD"][1] = fed["EUR/USD"][Len(fed["EUR/USD"]) - 999]

\* C12: get_price_statistics returns an empty result below two stored points;
\* from two on, price_change is the last price minus the one before it, and
\* price_change_pct is that change over the price before, times 100, or 0 when
\* the price before is 0.
C12_PriceStatistics ==
    stats.op = "get_price_statistics" =>
        LET n == Len(fed[stats.symbol]) IN
        IF n < 2 THEN DOMAIN stats.result = {}
        ELSE LET last_price == fed[stats.symbol][n].price
                 prev_price == fed[stats.symbol][n - 1].price
             IN  /\ DOMAIN stats.result # {}
                 /\ stats.result.price_change = last_price - prev_price
                 /\ IF prev_price = 0 THEN stats.result.price_change_pct = R(0)
                    ELSE RMul(stats.result.price_change_pct, R(prev_price)) =
                             R(100 * (last_price - prev_price))

\* The statistics were read with a rise from 1 to 2 behind a full window.
C12_Witness ==
    /\ stats.op = "get_price_statistics"
    /\ DOMAIN stats.result # {}
    /\ stats.result.data_points = 1000
    /\ stats.result.price_change = 1
    /\ stats.result.price_change_pct = R(100)

-----------------------------------------------------------------------------
(* FXDataHandler.get_trading_signals.                                      *)

\* the component signals produced in the last call
C11_Components == {k \in DOMAIN signals : k # "overall_signal"}
C11_Count(which) == Cardinality({k \in C11_Components : signals[k] = which})

\* C11: when get_trading_signals produces signals, overall_signal is BUY iff
\* strictly more component signals are BUY than SELL, SELL iff strictly more
\* are SELL than BUY, and HOLD otherwise.
C11_OverallSignal ==
    DOMAIN indicators # {} =>
        /\ "overall_signal" \in DOMAIN signals
        /\ signals.overall_signal = "BUY" <=> C11_Count("BUY") > C11_Count("SELL")
        /\ signals.overall_signal = "SELL" <=> C11_Count("SELL") > C11_Count("BUY")
        /\ signals.overall_signal = "HOLD" <=> C11_Count("BUY") = C11_Count("SELL")

\* One BUY and one SELL component, and a HOLD: the overall signal is HOLD.
C11_Witness ==
    /\ DOMAIN indicators # {}
    /\ C11_Components = {"ma_signal", "rsi_signal", "bb_signal"}
    /\ C11_Count("BUY") = 1 /\ C11_Count("SELL") = 1
    /\ signals.overall_signal = "HOLD"

\* C26: whenever RSI is defined, rsi_signal is produced, and it is SELL if
\* RSI > 70, BUY if RSI < 30 and HOLD otherwise, for every RSI in 0..100.
\* (The claim as stated; an RSI of exactly 0 refutes it.)
C26_RsiSignal ==
    (DOMAIN indicators # {} /\ indicators.rsi # NaN) =>
        /\ "rsi_signal" \in DOMAIN signals
        /\ signals.rsi_signal =
               (IF indicators.rsi > 70 THEN "SELL"
                ELSE IF indicators.rsi < 30 THEN "BUY"
                ELSE "HOLD")

-----------------------------------------------------------------------------
(* Threads without a lock.                                                 *)

\* C31: the ledger's cash is never negative, also when two threads are inside
\* place_order at once and their funds checks and debits interleave.
C31_CashNeverNegative == ~RGt(R(0), balance)

\* C38: a get_price_statistics call made while add_price_data runs on another
\* thread never reports more than 1000 points for a symbol.
C38_ReaderSeesAtMostCap ==
    (stats # NoStats /\ stats.result # << >>) =>
        stats.result.data_points <= MaxHistory

====
